---------------------------- MODULE Spec2Model ----------------------------
(***************************************************************************)
(* A model of src/parser.py (SmartSpend): the bank-statement parser that   *)
(* locates a transaction table in a cell grid, classifies it, normalises   *)
(* its columns, unifies the amount representation and cleans the rows.     *)
(*                                                                         *)
(* Text is a sequence of one-character strings, so that Python's `in`,     *)
(* str.lower, str.strip, str.match and len are computed, not assumed.      *)
(***************************************************************************)
EXTENDS Integers, Sequences, FiniteSets, TLC

VARIABLES
    pc,        \* position of the run
    ext,       \* load_and_parse_statement: the file's extension as given
    sheets,    \* the file's grids, in file order (one for a CSV)
    sheet,     \* index of the sheet the loop of line 152 is at (1-based)
    examined,  \* the sheet indexes read so far, in order
    df,        \* the table an operation is applied to
    accepted,  \* is_transaction_table's answer
    norm,      \* normalize_columns' table
    signed,    \* compute_signed_amount's table
    result,    \* what the operation returned or raised
    again      \* clean_transactions applied to its own output

vars == <<pc, ext, sheets, sheet, examined, df, accepted, norm, signed, result, again>>

(***************************************************************************)
(* Text                                                                    *)
(***************************************************************************)
\* str.lower, on the letters the model's texts use
LowerChar(c) ==
    CASE c = "A" -> "a" [] c = "B" -> "b" [] c = "C" -> "c" [] c = "D" -> "d"
      [] c = "E" -> "e" [] c = "F" -> "f" [] c = "G" -> "g" [] c = "L" -> "l"
      [] c = "M" -> "m" [] c = "N" -> "n" [] c = "O" -> "o" [] c = "P" -> "p"
      [] c = "R" -> "r" [] c = "S" -> "s" [] c = "T" -> "t" [] c = "U" -> "u"
      [] c = "V" -> "v" [] c = "W" -> "w" [] c = "X" -> "x" [] c = "Y" -> "y"
      [] OTHER -> c

Lower(s) == [i \in 1..Len(s) |-> LowerChar(s[i])]

\* Python's `sub in s` on text
Contains(s, sub) ==
    \E i \in 0..(Len(s) - Len(sub)) :
        \A j \in 1..Len(sub) : s[i + j] = sub[j]

IsSpace(c) == c = " "

RECURSIVE LStrip(_)
LStrip(s) == IF s # <<>> /\ IsSpace(Head(s)) THEN LStrip(Tail(s)) ELSE s

RECURSIVE RStrip(_)
RStrip(s) ==
    IF s # <<>> /\ IsSpace(s[Len(s)]) THEN RStrip(SubSeq(s, 1, Len(s) - 1)) ELSE s

\* str.strip
Strip(s) == RStrip(LStrip(s))

Digits == {"0", "1", "2", "3", "4", "5", "6", "7", "8", "9"}

DigitVal(c) ==
    CASE c = "0" -> 0 [] c = "1" -> 1 [] c = "2" -> 2 [] c = "3" -> 3
      [] c = "4" -> 4 [] c = "5" -> 5 [] c = "6" -> 6 [] c = "7" -> 7
      [] c = "8" -> 8 [] c = "9" -> 9

\* the regular expression ^\d+$ of line 89
AllDigits(s) == s # <<>> /\ \A i \in 1..Len(s) : s[i] \in Digits

RECURSIVE NatOf(_)
NatOf(s) == IF s = <<>> THEN 0 ELSE 10 * NatOf(SubSeq(s, 1, Len(s) - 1)) + DigitVal(s[Len(s)])

(***************************************************************************)
(* Tables.  A table has column labels and rows of cells; a cell is missing *)
(* (NaN/None), text, a number or a timestamp (n = yyyymmdd).               *)
(***************************************************************************)
NaN == [k |-> "nan", s |-> <<>>, n |-> 0]
Text(t) == [k |-> "text", s |-> t, n |-> 0]
Num(v) == [k |-> "num", s |-> <<>>, n |-> v]
Stamp(d) == [k |-> "date", s |-> <<>>, n |-> d]

Table(cols, rws) == [kind |-> "table", columns |-> cols, rows |-> rws, err |-> ""]
Raise(e) == [kind |-> "error", columns |-> <<>>, rows |-> <<>>, err |-> e]
None == [kind |-> "none", columns |-> <<>>, rows |-> <<>>, err |-> ""]

\* the positions of the columns labelled `name`
Positions(cols, name) == {i \in 1..Len(cols) : cols[i] = name}

(***************************************************************************)
(* is_transaction_table                                                    *)
(***************************************************************************)
kw_date == <<"d", "a", "t", "e">>
kw_description == <<"d", "e", "s", "c", "r", "i", "p", "t", "i", "o", "n">>
kw_remarks == <<"r", "e", "m", "a", "r", "k", "s">>
kw_narration == <<"n", "a", "r", "r", "a", "t", "i", "o", "n">>
kw_particulars == <<"p", "a", "r", "t", "i", "c", "u", "l", "a", "r", "s">>
kw_debit == <<"d", "e", "b", "i", "t">>
kw_credit == <<"c", "r", "e", "d", "i", "t">>
kw_amount == <<"a", "m", "o", "u", "n", "t">>
kw_withdrawal == <<"w", "i", "t", "h", "d", "r", "a", "w", "a", "l">>
kw_deposit == <<"d", "e", "p", "o", "s", "i", "t">>
kw_debit_credit == <<"d", "e", "b", "i", "t", " ", "/", " ", "c", "r", "e", "d", "i", "t">>
kw_dr_cr == <<"d", "r", "/", "c", "r">>

REQUIRED_KEYWORDS ==
    <<kw_date, kw_description, kw_remarks, kw_narration, kw_particulars,
      kw_debit, kw_credit, kw_amount>>

LowerCols(cols) == [i \in 1..Len(cols) |-> Lower(cols[i])]

AnyCol(cols, kw) == \E i \in 1..Len(cols) : Contains(cols[i], kw)

has_date(cols) == AnyCol(cols, kw_date)

has_amount(cols) ==
    \E i \in 1..Len(cols) :
        Contains(cols[i], kw_amount) \/ Contains(cols[i], kw_debit)
            \/ Contains(cols[i], kw_credit)

has_desc(cols) ==
    \E i \in 1..Len(cols) :
        Contains(cols[i], kw_description) \/ Contains(cols[i], kw_narration)
            \/ Contains(cols[i], kw_remarks) \/ Contains(cols[i], kw_particulars)

RECURSIVE ScoreFrom(_, _)
ScoreFrom(cols, k) ==
    IF k > Len(REQUIRED_KEYWORDS) THEN 0
    ELSE (IF AnyCol(cols, REQUIRED_KEYWORDS[k]) THEN 1 ELSE 0) + ScoreFrom(cols, k + 1)

score(cols) == ScoreFrom(cols, 1)

MinScore == 2
MinColumns == 3

\* the classifier without its date requirement
is_transaction_table_mut(t) ==
    LET cols == LowerCols(t.columns)
    IN  (has_amount(cols) \/ has_desc(cols))
        /\ score(cols) >= MinScore /\ Len(t.columns) >= MinColumns

is_transaction_table(t) ==
    LET cols == LowerCols(t.columns)
    IN  has_date(cols) /\ (has_amount(cols) \/ has_desc(cols))
        /\ score(cols) >= MinScore /\ Len(t.columns) >= MinColumns

(***************************************************************************)
(* normalize_columns                                                       *)
(***************************************************************************)
Date == <<"D", "a", "t", "e">>
Description == <<"D", "e", "s", "c", "r", "i", "p", "t", "i", "o", "n">>
Amount == <<"A", "m", "o", "u", "n", "t">>
Debit == <<"D", "e", "b", "i", "t">>
Credit == <<"C", "r", "e", "d", "i", "t">>
Type == <<"T", "y", "p", "e">>

\* the chain with the Type rule tried before the Debit rule
Rename_mut(col) ==
    LET col_lower == Lower(col)
    IN  IF Contains(col_lower, kw_date) THEN Date
        ELSE IF \E x \in {kw_description, kw_remarks, kw_narration, kw_particulars} :
                    Contains(col_lower, x)
             THEN Description
        ELSE IF Contains(col_lower, kw_amount) /\ ~Contains(col_lower, kw_withdrawal)
                    /\ ~Contains(col_lower, kw_deposit)
             THEN Amount
        ELSE IF Contains(col_lower, kw_debit_credit) \/ Contains(col_lower, kw_dr_cr)
             THEN Type
        ELSE IF Contains(col_lower, kw_withdrawal) \/ Contains(col_lower, kw_debit)
             THEN Debit
        ELSE IF Contains(col_lower, kw_deposit) \/ Contains(col_lower, kw_credit)
             THEN Credit
        ELSE col

\* the if/elif chain of lines 25-36 on one label: the entry rename_map gets,
\* or the label itself when no branch is taken
Rename(col) ==
    LET col_lower == Lower(col)
    IN  IF Contains(col_lower, kw_date) THEN Date
        ELSE IF \E x \in {kw_description, kw_remarks, kw_narration, kw_particulars} :
                    Contains(col_lower, x)
             THEN Description
        ELSE IF Contains(col_lower, kw_amount) /\ ~Contains(col_lower, kw_withdrawal)
                    /\ ~Contains(col_lower, kw_deposit)
             THEN Amount
        ELSE IF Contains(col_lower, kw_withdrawal) \/ Contains(col_lower, kw_debit)
             THEN Debit
        ELSE IF Contains(col_lower, kw_deposit) \/ Contains(col_lower, kw_credit)
             THEN Credit
        ELSE IF Contains(col_lower, kw_debit_credit) \/ Contains(col_lower, kw_dr_cr)
             THEN Type
        ELSE col

\* df.rename(columns=rename_map): rename_map is keyed by the source label, so
\* every column is relabelled by its own label's entry
normalize_columns(t) ==
    Table([i \in 1..Len(t.columns) |-> Rename(t.columns[i])], t.rows)


(***************************************************************************)
(* Conversions of cells                                                    *)
(***************************************************************************)
DigitChar(v) ==
    CASE v = 0 -> "0" [] v = 1 -> "1" [] v = 2 -> "2" [] v = 3 -> "3"
      [] v = 4 -> "4" [] v = 5 -> "5" [] v = 6 -> "6" [] v = 7 -> "7"
      [] v = 8 -> "8" [] v = 9 -> "9"

RECURSIVE NatText(_)
NatText(v) == IF v < 10 THEN <<DigitChar(v)>> ELSE NatText(v \div 10) \o <<DigitChar(v % 10)>>

\* the last `width` decimal digits of v, zero padded (%Y, %m, %d)
RECURSIVE Padded(_, _)
Padded(v, width) ==
    IF width = 0 THEN <<>> ELSE Padded(v \div 10, width - 1) \o <<DigitChar(v % 10)>>

\* the date written without zero padding
StrfTime_mut(d) ==
    NatText(d \div 10000) \o <<"-">> \o NatText((d \div 100) % 100)
        \o <<"-">> \o NatText(d % 100)

\* strftime('%Y-%m-%d') of a timestamp yyyymmdd
StrfTime(d) ==
    Padded(d \div 10000, 4) \o <<"-">> \o Padded((d \div 100) % 100, 2)
        \o <<"-">> \o Padded(d % 100, 2)

\* a text in the form YYYY-MM-DD naming a month 1..12 and a day 1..31
IsIsoDate(s) ==
    /\ Len(s) = 10
    /\ s[5] = "-" /\ s[8] = "-"
    /\ \A i \in {1, 2, 3, 4, 6, 7, 9, 10} : s[i] \in Digits
    /\ NatOf(SubSeq(s, 6, 7)) \in 1..12
    /\ NatOf(SubSeq(s, 9, 10)) \in 1..31

EpochDay == 19700101

\* pd.to_datetime(errors="coerce") on one cell: a timestamp yyyymmdd, or NaN
\* (NaT).  A number is read as nanoseconds since the epoch, which for the
\* model's numbers is a time on 1970-01-01; the texts of the model are dates
\* written YYYY-MM-DD or no dates at all.
to_datetime(c) ==
    CASE c.k = "date" -> c
      [] c.k = "num" -> Stamp(EpochDay)
      [] c.k = "text" ->
            IF IsIsoDate(c.s)
            THEN Stamp(NatOf(SubSeq(c.s, 1, 4)) * 10000 + NatOf(SubSeq(c.s, 6, 7)) * 100
                        + NatOf(SubSeq(c.s, 9, 10)))
            ELSE NaN
      [] OTHER -> NaN

\* a text that is an optional sign and digits
IsIntText(s) ==
    IF s # <<>> /\ Head(s) = "-" THEN AllDigits(Tail(s)) ELSE AllDigits(s)

\* pd.to_numeric(errors="coerce") on one cell.  No input of the model holds a
\* timestamp in an amount column.
to_numeric(c) ==
    CASE c.k = "num" -> c
      [] c.k = "text" ->
            LET s == Strip(c.s)
            IN  IF ~IsIntText(s) THEN NaN
                ELSE IF Head(s) = "-" THEN Num(0 - NatOf(Tail(s)))
                ELSE Num(NatOf(s))
      [] OTHER -> NaN

\* astype(str) on one cell
astype_str(c) ==
    CASE c.k = "text" -> c.s
      [] c.k = "num" -> IF c.n < 0 THEN <<"-">> \o NatText(0 - c.n) ELSE NatText(c.n)
      [] c.k = "date" -> StrfTime(c.n) \o <<" ", "0", "0", ":", "0", "0", ":", "0", "0">>
      [] OTHER -> <<"n", "a", "n">>

\* fillna(0)
fillna0(c) == IF c.k = "nan" THEN Num(0) ELSE c

(***************************************************************************)
(* compute_signed_amount                                                   *)
(***************************************************************************)
possible_debit == {<<"d", "e", "b", "i", "t">>, <<"w", "i", "t", "h", "d", "r", "a", "w", "a", "l">>, <<"w", "i", "t", "h", "d", "r", "a", "w", "a", "l", " ", "a", "m", "t", ".">>, <<"w", "i", "t", "h", "d", "r", "a", "w", "a", "l", " ", "a", "m", "o", "u", "n", "t">>}
possible_credit == {<<"c", "r", "e", "d", "i", "t">>, <<"d", "e", "p", "o", "s", "i", "t">>, <<"d", "e", "p", "o", "s", "i", "t", " ", "a", "m", "t", ".">>, <<"d", "e", "p", "o", "s", "i", "t", " ", "a", "m", "o", "u", "n", "t">>}

\* next((col for col in df.columns if str(col).lower().strip() in names), None):
\* the position of the first such column, 0 for None
FirstCol(cols, names) ==
    LET hits == {i \in 1..Len(cols) : Strip(Lower(cols[i])) \in names}
    IN  IF hits = {} THEN 0 ELSE CHOOSE i \in hits : \A j \in hits : i <= j

\* line 51: the row's Amount, negated when its Type text contains "debit"
SignByType(amt, typ) ==
    IF Contains(typ.s, kw_debit) /\ amt.k = "num" THEN Num(0 - amt.n) ELSE amt

\* debit - credit
SignedDiff_mut(credit, debit) == Num(debit.n - credit.n)

\* line 66: credit - debit
SignedDiff(credit, debit) == Num(credit.n - debit.n)

compute_signed_amount(t) ==
    LET cols == t.columns
        ap == Positions(cols, Amount)
        tp == Positions(cols, Type)
    IN  IF ap # {}
        THEN \* Case 1: lines 45-53
             IF Cardinality(ap) > 1 THEN Raise("TypeError")   \* to_numeric of a DataFrame
             ELSE LET a == CHOOSE i \in ap : TRUE
                      num == [r \in 1..Len(t.rows) |->
                                 [t.rows[r] EXCEPT ![a] = to_numeric(@)]]
                  IN  IF tp = {} THEN Table(cols, num)
                      ELSE IF Cardinality(tp) > 1 THEN Raise("AttributeError")  \* .str of a DataFrame
                      \* df.apply(axis=1) of a table without rows is a DataFrame,
                      \* which cannot be set as the one column Amount
                      ELSE IF Len(t.rows) = 0 THEN Raise("ValueError")
                      ELSE LET ty == CHOOSE i \in tp : TRUE
                               low == [r \in 1..Len(num) |->
                                          [num[r] EXCEPT ![ty] = Text(Lower(Strip(astype_str(@))))]]
                           IN  Table(cols,
                                     [r \in 1..Len(low) |->
                                         [low[r] EXCEPT ![a] = SignByType(@, low[r][ty])]])
        ELSE \* Case 2: lines 56-66
             LET debit_col == FirstCol(cols, possible_debit)
                 credit_col == FirstCol(cols, possible_credit)
             IN  \* df.get(None, 0) is 0 and to_numeric(0) is an int, which has no fillna
                 IF debit_col = 0 THEN Raise("AttributeError")
                 ELSE IF Cardinality(Positions(cols, cols[debit_col])) > 1 THEN Raise("TypeError")
                 ELSE IF credit_col = 0 THEN Raise("AttributeError")
                 ELSE IF Cardinality(Positions(cols, cols[credit_col])) > 1 THEN Raise("TypeError")
                 ELSE Table(Append(cols, Amount),
                            [r \in 1..Len(t.rows) |->
                                Append(t.rows[r],
                                       SignedDiff(fillna0(to_numeric(t.rows[r][credit_col])),
                                                  fillna0(to_numeric(t.rows[r][debit_col]))))])

(***************************************************************************)
(* clean_transactions                                                      *)
(***************************************************************************)
MinDate == 19850101
MinDescLen == 2

ghost_values == {<<"n", "a", "n">>, <<>>, <<"n", "o", "n", "e">>, <<"n", "u", "l", "l">>}
footer_keywords == {<<"t", "o", "t", "a", "l">>, <<"c", "l", "o", "s", "i", "n", "g">>, <<"b", "a", "l", "a", "n", "c", "e">>, <<"s", "u", "m", "m", "a", "r", "y">>, <<"o", "p", "e", "n", "i", "n", "g">>}

\* the date bound taken as exclusive
DateKept_mut(c) == c.k = "date" /\ c.n > MinDate

\* Step 1, line 76
DateKept(c) == c.k = "date" /\ c.n >= MinDate

\* Step 4, lines 87-91, on a Description already stripped
DescKept(s) ==
    /\ Lower(s) \notin ghost_values
    /\ ~AllDigits(s)
    /\ Len(s) > MinDescLen

\* line 97
IsFooter(s) == \E kw \in footer_keywords : Contains(Lower(s), kw)

\* the cut taken at the first footer row
CutoffIndex_mut(descs) ==
    LET hits == {i \in 1..Len(descs) : IsFooter(descs[i])}
    IN  IF hits = {} THEN Len(descs)
        ELSE (CHOOSE i \in hits : \A j \in hits : i <= j) - 1

\* Step 5, lines 95-99: the index (0-based) of the last footer row, or len(df)
CutoffIndex(descs) ==
    LET hits == {i \in 1..Len(descs) : IsFooter(descs[i])}
    IN  IF hits = {} THEN Len(descs)
        ELSE (CHOOSE i \in hits : \A j \in hits : j <= i) - 1

\* Step 6, line 103
TypeOf(x) == IF x < 0 THEN Debit ELSE Credit

Abs(x) == IF x < 0 THEN 0 - x ELSE x

clean_transactions(t) ==
    LET cols == t.columns
        dp == Positions(cols, Date)
        sp == Positions(cols, Description)
        ap == Positions(cols, Amount)
    IN  IF dp = {} THEN Raise("KeyError")
        ELSE IF Cardinality(dp) > 1 THEN Raise("ValueError")      \* to_datetime of a DataFrame
        ELSE IF sp = {} THEN Raise("KeyError")
        ELSE IF Cardinality(sp) > 1 THEN Raise("AttributeError")  \* .str of a DataFrame
        ELSE IF ap = {} THEN Raise("KeyError")
        ELSE IF Cardinality(ap) > 1 THEN Raise("TypeError")       \* to_numeric of a DataFrame
        ELSE
        LET d == CHOOSE i \in dp : TRUE
            s == CHOOSE i \in sp : TRUE
            a == CHOOSE i \in ap : TRUE
            \* Step 1
            parsed == [r \in 1..Len(t.rows) |-> [t.rows[r] EXCEPT ![d] = to_datetime(@)]]
            dated == SelectSeq(parsed, LAMBDA r : DateKept(r[d]))
            step1 == [r \in 1..Len(dated) |-> [dated[r] EXCEPT ![d] = Text(StrfTime(@.n))]]
            \* Step 2
            step2 == [r \in 1..Len(step1) |->
                         [step1[r] EXCEPT ![s] = Text(Strip(astype_str(@)))]]
            \* Step 3
            numeric == [r \in 1..Len(step2) |-> [step2[r] EXCEPT ![a] = to_numeric(@)]]
            step3 == SelectSeq(numeric, LAMBDA r : r[a].k = "num")
            \* Step 4
            step4 == SelectSeq(step3, LAMBDA r : DescKept(r[s].s))
            \* Step 5
            cutoff_index == CutoffIndex([r \in 1..Len(step4) |-> step4[r][s].s])
            step5 == SubSeq(step4, 1, cutoff_index)
        IN  \* Step 6 and the projection of line 106
            Table(<<Date, Description, Amount, Type>>,
                  [r \in 1..Len(step5) |->
                      <<step5[r][d], step5[r][s], Num(Abs(step5[r][a].n)),
                        Text(TypeOf(step5[r][a].n))>>])


(***************************************************************************)
(* find_transaction_table                                                  *)
(***************************************************************************)
MaxSearchRows == 100
MinHeaderCells == 3

Min(a, b) == IF a < b THEN a ELSE b

\* line 118: each cell as trimmed text, '' for a missing one
HeaderOf(row) ==
    [j \in 1..Len(row) |-> IF row[j].k = "nan" THEN <<>> ELSE Strip(astype_str(row[j]))]

\* line 121
NonEmpty(header) == Cardinality({j \in 1..Len(header) : header[j] # <<>>})

\* lines 125-126: the rows strictly below row i, labelled by row i's header
Candidate(grid, i) == Table(HeaderOf(grid[i]), SubSeq(grid, i + 1, Len(grid)))

\* the loop of lines 115-130 from row i on (rows are 1-based here): the rows
\* with fewer than 3 non-empty header cells are passed over (continue), the
\* next row is classified, and the loop goes on after it when it is rejected
RECURSIVE ScanFrom(_, _, _)
ScanFrom(grid, i, max_search_rows) ==
    LET headers == {j \in i..max_search_rows :
                       ~(NonEmpty(HeaderOf(grid[j])) < MinHeaderCells)}
    IN  IF headers = {} THEN None
        ELSE LET j == CHOOSE h \in headers : \A g \in headers : h <= g
             IN  IF is_transaction_table(Candidate(grid, j)) THEN Candidate(grid, j)
                 ELSE ScanFrom(grid, j + 1, max_search_rows)

\* the scan without the bound of 100 rows
find_transaction_table_mut(grid) == ScanFrom(grid, 1, Len(grid))

find_transaction_table(grid) == ScanFrom(grid, 1, Min(MaxSearchRows, Len(grid)))

(***************************************************************************)
(* load_and_parse_statement                                                *)
(***************************************************************************)
\* lines 144-146 and 156-158: what the three calls return or raise
ParseTable(t) ==
    LET s == compute_signed_amount(normalize_columns(t))
    IN  IF s.kind = "error" THEN s ELSE clean_transactions(s)

ExtOf == Lower(ext)

IsCsv == ExtOf = <<".", "c", "s", "v">>
IsExcel == ExtOf \in {<<".", "x", "l", "s", "x">>, <<".", "x", "l", "s">>}


(***************************************************************************)
(* The operations on one table, in the order the loader calls them         *)
(***************************************************************************)
SeqsUpTo(S, n) == UNION {[1..k -> S] : k \in 0..n}

NoFile == ext = <<>> /\ sheets = <<>> /\ sheet = 0 /\ examined = <<>>

Idle ==
    /\ NoFile
    /\ accepted = FALSE /\ norm = None /\ signed = None /\ result = None /\ again = None

\* line 127
Classify ==
    /\ pc = "classify"
    /\ accepted' = is_transaction_table(df)
    /\ pc' = IF is_transaction_table(df) THEN "normalize" ELSE "rejected"
    /\ UNCHANGED <<ext, sheets, sheet, examined, df, norm, signed, result, again>>

\* lines 144, 156
Normalize ==
    /\ pc = "normalize"
    /\ norm' = normalize_columns(df)
    /\ pc' = "compute"
    /\ UNCHANGED <<ext, sheets, sheet, examined, df, accepted, signed, result, again>>

\* lines 145, 157
Compute ==
    /\ pc = "compute"
    /\ signed' = compute_signed_amount(norm)
    /\ pc' = IF compute_signed_amount(norm).kind = "error" THEN "raised" ELSE "clean"
    /\ UNCHANGED <<ext, sheets, sheet, examined, df, accepted, norm, result, again>>

\* lines 146, 158
Clean ==
    /\ pc = "clean"
    /\ result' = clean_transactions(signed)
    /\ pc' = IF clean_transactions(signed).kind = "error" THEN "raised" ELSE "cleaned"
    /\ UNCHANGED <<ext, sheets, sheet, examined, df, accepted, norm, signed, again>>

\* clean_transactions on the table it returned
Reclean ==
    /\ pc = "cleaned"
    /\ again' = clean_transactions(result)
    /\ pc' = "recleaned"
    /\ UNCHANGED <<ext, sheets, sheet, examined, df, accepted, norm, signed, result>>

NextTable == Classify \/ Normalize \/ Compute \/ Clean

(***************************************************************************)
(* Candidate headers: every sequence of at most MaxCols labels             *)
(***************************************************************************)
MaxCols == 4

Labels ==
    {<<"T", "x", "n", " ", "D", "a", "t", "e">>, <<"V", "a", "l", "u", "e", " ", "D", "a", "t", "e">>, <<"N", "a", "r", "r", "a", "t", "i", "o", "n">>, <<"A", "m", "o", "u", "n", "t">>, <<"W", "i", "t", "h", "d", "r", "a", "w", "a", "l", " ", "A", "m", "t", ".">>,
     <<"C", "r", "e", "d", "i", "t">>, <<>>}

InitColumns ==
    /\ Idle
    /\ pc = "classify"
    /\ df \in {Table(cols, <<>>) : cols \in SeqsUpTo(Labels, MaxCols)}

SpecColumns == InitColumns /\ [][NextTable]_vars


\* the lower-cased labels of the table under test
LabelsLower == {Lower(df.columns[i]) : i \in 1..Len(df.columns)}

SomeLabelHas(kw) == \E l \in LabelsLower : Contains(l, kw)

\* C1: is_transaction_table accepts a table if and only if some lower-cased
\* label contains "date", and some label contains amount, debit or credit or
\* some label contains description, narration, remarks or particulars, and at
\* least 2 of the 8 required keywords occur in some label (each keyword counted
\* once), and the table has at least 3 columns; so no table without a label
\* containing "date" is accepted.
C1_AcceptIff ==
    pc # "classify" =>
        /\ accepted <=>
              /\ SomeLabelHas(<<"d", "a", "t", "e">>)
              /\ \/ \E kw \in {<<"a", "m", "o", "u", "n", "t">>, <<"d", "e", "b", "i", "t">>, <<"c", "r", "e", "d", "i", "t">>} : SomeLabelHas(kw)
                 \/ \E kw \in {<<"d", "e", "s", "c", "r", "i", "p", "t", "i", "o", "n">>, <<"n", "a", "r", "r", "a", "t", "i", "o", "n">>, <<"r", "e", "m", "a", "r", "k", "s">>, <<"p", "a", "r", "t", "i", "c", "u", "l", "a", "r", "s">>} :
                        SomeLabelHas(kw)
              /\ Cardinality({kw \in {<<"d", "a", "t", "e">>, <<"d", "e", "s", "c", "r", "i", "p", "t", "i", "o", "n">>, <<"r", "e", "m", "a", "r", "k", "s">>, <<"n", "a", "r", "r", "a", "t", "i", "o", "n">>,
                                      <<"p", "a", "r", "t", "i", "c", "u", "l", "a", "r", "s">>, <<"d", "e", "b", "i", "t">>, <<"c", "r", "e", "d", "i", "t">>, <<"a", "m", "o", "u", "n", "t">>} :
                                 SomeLabelHas(kw)}) >= 2
              /\ Len(df.columns) >= 3
        /\ accepted => SomeLabelHas(<<"d", "a", "t", "e">>)

\* C1's case: a table of three columns, two of them dates and one an amount,
\* has been classified and accepted
C1_Witness ==
    /\ pc = "normalize" /\ accepted
    /\ df.columns = <<<<"T", "x", "n", " ", "D", "a", "t", "e">>, <<"V", "a", "l", "u", "e", " ", "D", "a", "t", "e">>, <<"A", "m", "o", "u", "n", "t">>>>

\* C7: after normalize_columns no two columns of the table carry the same
\* canonical role name (Date, Description, Amount, Debit, Credit, Type), here
\* for a table whose source labels are pairwise different.
C7_OneColumnPerRole ==
    (/\ pc \in {"compute", "clean", "cleaned", "raised"}
     /\ \A i, j \in 1..Len(df.columns) : df.columns[i] = df.columns[j] => i = j) =>
        \A role \in {Date, Description, Amount, Debit, Credit, Type} :
            Cardinality(Positions(norm.columns, role)) <= 1


(***************************************************************************)
(* Amount representations: a header Date, Description and two more labels  *)
(* over at most one row, and the Withdrawal/Deposit header over at most    *)
(* MaxRowsU rows                                                           *)
(***************************************************************************)
MaxRowsU == 2

LabelsU ==
    {<<"A", "m", "o", "u", "n", "t">>, <<"W", "i", "t", "h", "d", "r", "a", "w", "a", "l", " ", "A", "m", "t", ".">>, <<"D", "e", "p", "o", "s", "i", "t", " ", "A", "m", "t", ".">>, <<"D", "e", "b", "i", "t">>, <<"C", "r", "e", "d", "i", "t">>,
     <<"D", "e", "b", "i", "t", " ", "/", " ", "C", "r", "e", "d", "i", "t">>, <<"D", "r", "/", "C", "r">>, <<"D", "r", "/", "C", "r", " ", "A", "m", "o", "u", "n", "t">>, <<"T", "y", "p", "e">>, <<"B", "a", "l", "a", "n", "c", "e">>}

DatesU == {Text(<<"2", "0", "2", "3", "-", "0", "5", "-", "0", "1">>), NaN}

CellsU == {NaN, Text(<<"a", "b", "c">>), Text(<<"1", "0", "0">>), Text(<<"0">>), Num(50), Text(<<" ", "D", "e", "b", "i", "t", " ">>)}

PairCells == {NaN, Text(<<"a", "b", "c">>), Text(<<"1", "0", "0">>), Text(<<"0">>), Num(50)}

RowsU == {<<d, Text(<<"G", "r", "o", "c", "e", "r", "y">>), c3, c4>> : d \in DatesU, c3 \in CellsU, c4 \in CellsU}

PairRows ==
    {<<Text(<<"2", "0", "2", "3", "-", "0", "5", "-", "0", "1">>), Text(<<"G", "r", "o", "c", "e", "r", "y">>), c3, c4>> : c3 \in PairCells, c4 \in PairCells}
        \cup {<<NaN, Text(<<"G", "r", "o", "c", "e", "r", "y">>), Text(<<"1", "0", "0">>), Text(<<"0">>)>>}

PairHeader == <<<<"T", "x", "n", " ", "D", "a", "t", "e">>, <<"N", "a", "r", "r", "a", "t", "i", "o", "n">>, <<"W", "i", "t", "h", "d", "r", "a", "w", "a", "l", " ", "A", "m", "t", ".">>, <<"D", "e", "p", "o", "s", "i", "t", " ", "A", "m", "t", ".">>>>

InitUnify ==
    /\ Idle
    /\ pc = "classify"
    /\ \/ \E l3 \in LabelsU, l4 \in LabelsU :
            \E rws \in {<<>>} \cup {<<r>> : r \in RowsU} :
                df = Table(<<<<"D", "a", "t", "e">>, <<"D", "e", "s", "c", "r", "i", "p", "t", "i", "o", "n">>, l3, l4>>, rws)
       \/ \E rws \in SeqsUpTo(PairRows, MaxRowsU) : df = Table(PairHeader, rws)

SpecUnify == InitUnify /\ [][NextTable]_vars

\* a cell's number, 0 when it is missing or unparseable
ValueOr0(c) == IF to_numeric(c).k = "num" THEN to_numeric(c).n ELSE 0

TheCol(t, name) == CHOOSE i \in Positions(t.columns, name) : TRUE

\* the normalized table has no Amount column, one Debit and one Credit column
DebitCreditPair ==
    /\ norm.kind = "table"
    /\ Positions(norm.columns, Amount) = {}
    /\ Cardinality(Positions(norm.columns, Debit)) = 1
    /\ Cardinality(Positions(norm.columns, Credit)) = 1

\* credit - debit of a row of the normalized table
NetOf(row) == ValueOr0(row[TheCol(norm, Credit)]) - ValueOr0(row[TheCol(norm, Debit)])

\* the rows whose Date parses to 1985-01-01 or later (the descriptions of this
\* specification's rows all pass and none is a footer)
DatedRows == SelectSeq(norm.rows, LAMBDA r : to_datetime(r[TheCol(norm, Date)]).k = "date")

\* C8: for a normalized table with no Amount column and a Debit and a Credit
\* column, compute_signed_amount appends Amount = credit - debit per row, a
\* missing or unparseable cell counting as 0, and clean_transactions emits for
\* every surviving row Amount = |credit - debit| and Type = Debit exactly when
\* credit - debit < 0, otherwise Credit.
C8_DebitCreditPair ==
    (pc \in {"clean", "cleaned", "raised"} /\ DebitCreditPair) =>
        /\ signed.kind = "table"
        /\ signed.columns = Append(norm.columns, Amount)
        /\ Len(signed.rows) = Len(norm.rows)
        /\ \A r \in 1..Len(norm.rows) :
              signed.rows[r] = Append(norm.rows[r], Num(NetOf(norm.rows[r])))
        /\ pc # "raised"
        /\ pc = "cleaned" =>
              /\ Len(result.rows) = Len(DatedRows)
              /\ \A k \in 1..Len(DatedRows) :
                    LET net == NetOf(DatedRows[k])
                    IN  /\ result.rows[k][3] = Num(IF net < 0 THEN 0 - net ELSE net)
                        /\ result.rows[k][3].n >= 0
                        /\ result.rows[k][4] = Text(IF net < 0 THEN <<"D", "e", "b", "i", "t">> ELSE <<"C", "r", "e", "d", "i", "t">>)

\* C8's case: Debit=100, Credit=0 comes out (100, Debit) and Debit=0, Credit=50
\* comes out (50, Credit)
C8_Witness ==
    /\ pc = "cleaned" /\ DebitCreditPair
    /\ df.rows = << <<Text(<<"2", "0", "2", "3", "-", "0", "5", "-", "0", "1">>), Text(<<"G", "r", "o", "c", "e", "r", "y">>), Text(<<"1", "0", "0">>), Text(<<"0">>)>>,
                    <<Text(<<"2", "0", "2", "3", "-", "0", "5", "-", "0", "1">>), Text(<<"G", "r", "o", "c", "e", "r", "y">>), Text(<<"0">>), Num(50)>> >>
    /\ result.rows = << <<Text(<<"2", "0", "2", "3", "-", "0", "5", "-", "0", "1">>), Text(<<"G", "r", "o", "c", "e", "r", "y">>), Num(100), Text(<<"D", "e", "b", "i", "t">>)>>,
                        <<Text(<<"2", "0", "2", "3", "-", "0", "5", "-", "0", "1">>), Text(<<"G", "r", "o", "c", "e", "r", "y">>), Num(50), Text(<<"C", "r", "e", "d", "i", "t">>)>> >>

Normalized == pc \in {"compute", "clean", "cleaned", "raised"}

\* a label containing "debit / credit" is never renamed to Type
DebitCreditNeverType ==
    \A i \in 1..Len(df.columns) :
        Contains(Lower(df.columns[i]), <<"d", "e", "b", "i", "t", " ", "/", " ", "c", "r", "e", "d", "i", "t">>) =>
            norm.columns[i] \in {Date, Description, Amount, Debit}

\* a column is renamed to Type exactly when its label contains "dr/cr" and
\* none of the ten keywords of the earlier rules
TypeOnlyByDrCr ==
    \A i \in 1..Len(df.columns) :
        (norm.columns[i] = Type /\ df.columns[i] # Type) <=>
            /\ Contains(Lower(df.columns[i]), <<"d", "r", "/", "c", "r">>)
            /\ \A kw \in {<<"d", "a", "t", "e">>, <<"d", "e", "s", "c", "r", "i", "p", "t", "i", "o", "n">>, <<"r", "e", "m", "a", "r", "k", "s">>, <<"n", "a", "r", "r", "a", "t", "i", "o", "n">>, <<"p", "a", "r", "t", "i", "c", "u", "l", "a", "r", "s">>,
                          <<"a", "m", "o", "u", "n", "t">>, <<"w", "i", "t", "h", "d", "r", "a", "w", "a", "l">>, <<"d", "e", "b", "i", "t">>, <<"d", "e", "p", "o", "s", "i", "t">>, <<"c", "r", "e", "d", "i", "t">>} :
                   ~Contains(Lower(df.columns[i]), kw)

\* line 51 negated row r's Amount: the signed amount is minus the row's number
NegatedByType(r) ==
    /\ signed.kind = "table"
    /\ Cardinality(Positions(norm.columns, Amount)) = 1
    /\ LET a == TheCol(norm, Amount)
       IN  /\ to_numeric(norm.rows[r][a]).k = "num"
           /\ to_numeric(norm.rows[r][a]).n # 0
           /\ signed.rows[r][a] = Num(0 - to_numeric(norm.rows[r][a]).n)

\* C10 as stated: the Type rule is shadowed as above, and a row's Amount is
\* negated by its Type only in a table whose Type column is a renamed "dr/cr"
\* column.
C10_OnlyThroughDrCr ==
    Normalized =>
        /\ DebitCreditNeverType
        /\ TypeOnlyByDrCr
        /\ \A r \in 1..Len(norm.rows) :
              NegatedByType(r) =>
                  \E i \in 1..Len(df.columns) :
                      norm.columns[i] = Type /\ Contains(Lower(df.columns[i]), <<"d", "r", "/", "c", "r">>)

\* C10 amended: the Type rule is shadowed as above, and a row's Amount is
\* negated by its Type only in a table whose Type column is a renamed "dr/cr"
\* column or a source column labelled exactly Type, which no rule renames.
C10_TypeRule ==
    Normalized =>
        /\ DebitCreditNeverType
        /\ TypeOnlyByDrCr
        /\ \A r \in 1..Len(norm.rows) :
              NegatedByType(r) =>
                  \E i \in 1..Len(df.columns) :
                      /\ norm.columns[i] = Type
                      /\ Contains(Lower(df.columns[i]), <<"d", "r", "/", "c", "r">>) \/ df.columns[i] = <<"T", "y", "p", "e">>

\* C10's case: a "Dr/Cr" column has been renamed to Type and the row's Amount
\* has been negated by it
C10_Witness ==
    /\ pc = "clean"
    /\ df.columns = <<<<"D", "a", "t", "e">>, <<"D", "e", "s", "c", "r", "i", "p", "t", "i", "o", "n">>, <<"A", "m", "o", "u", "n", "t">>, <<"D", "r", "/", "C", "r">>>>
    /\ norm.columns = <<Date, Description, Amount, Type>>
    /\ NegatedByType(1)


(***************************************************************************)
(* Rows to clean: a table Date, Description, Amount of one row over every  *)
(* combination of the cells below, or of at most MaxRows rows of LedgerRows*)
(***************************************************************************)
MaxRows == 4

DateCells ==
    {NaN, Text(<<"n", "/", "a">>), Num(5), Text(<<"1", "9", "8", "4", "-", "1", "2", "-", "3", "1">>), Text(<<"1", "9", "8", "5", "-", "0", "1", "-", "0", "1">>),
     Text(<<"2", "0", "2", "3", "-", "0", "5", "-", "0", "1">>), Stamp(19841231), Stamp(19850101)}

DescCells ==
    {NaN, Text(<<>>), Text(<<"-">>), Text(<<"N", "A">>), Text(<<" ", "a", "b", " ">>), Text(<<"A", "T", "M">>), Text(<<"1", "2", "3">>),
     Text(<<"1", "2", "a">>), Text(<<"N", "a", "N">>), Text(<<"N", "o", "n", "e">>), Text(<<"N", "U", "L", "L">>), Num(1234),
     Text(<<"G", "r", "o", "c", "e", "r", "y", " ", "S", "t", "o", "r", "e">>), Text(<<"T", "o", "t", "a", "l", " ", "B", "a", "l", "a", "n", "c", "e">>)}

AmountCells == {NaN, Text(<<"a", "b", "c">>), Text(<<>>), Text(<<"5", "0", "0">>), Text(<<"-", "1", "0", "0">>), Num(0), Num(-7)}

LedgerRows ==
    {<<Text(<<"2", "0", "2", "3", "-", "0", "5", "-", "0", "1">>), Text(<<"G", "r", "o", "c", "e", "r", "y", " ", "S", "t", "o", "r", "e">>), Text(<<"-", "5", "0", "0">>)>>,
     <<Text(<<"2", "0", "2", "3", "-", "0", "5", "-", "0", "2">>), Text(<<"S", "a", "l", "a", "r", "y">>), Num(50000)>>,
     <<Text(<<"2", "0", "2", "3", "-", "0", "5", "-", "0", "3">>), Text(<<"B", "a", "l", "a", "n", "c", "e", " ", "T", "r", "a", "n", "s", "f", "e", "r", " ", "F", "e", "e">>), Num(-25)>>,
     <<Text(<<"2", "0", "2", "3", "-", "0", "5", "-", "0", "4">>), Text(<<"T", "O", "T", "A", "L", " ", "B", "A", "L", "A", "N", "C", "E">>), Num(49475)>>,
     <<NaN, Text(<<"C", "l", "o", "s", "i", "n", "g", " ", "B", "a", "l", "a", "n", "c", "e">>), Num(49475)>>}

InitClean ==
    /\ NoFile
    /\ accepted = FALSE /\ norm = None /\ result = None /\ again = None
    /\ pc = "clean"
    /\ \E rws \in {<<<<d, s, a>>>> : d \in DateCells, s \in DescCells, a \in AmountCells}
                    \cup SeqsUpTo(LedgerRows, MaxRows) :
            /\ df = Table(<<Date, Description, Amount>>, rws)
            /\ signed = Table(<<Date, Description, Amount>>, rws)

NextClean == Clean \/ Reclean

SpecClean == InitClean /\ [][NextClean]_vars

\* the row filter as C9 states it, on a row <<Date, Description, Amount>>
KeptAsStated(row) ==
    LET desc == Strip(astype_str(row[2]))
    IN  /\ to_datetime(row[1]).k = "date"
        /\ to_datetime(row[1]).n >= 19850101
        /\ to_numeric(row[3]).k = "num"
        /\ Len(desc) > 2
        /\ \E i \in 1..Len(desc) : desc[i] \notin Digits
        /\ Lower(desc) \notin {<<"n", "a", "n">>, <<"n", "o", "n", "e">>, <<"n", "u", "l", "l">>}

\* a description containing a footer keyword, as C4 states it
FooterAsStated(desc) ==
    \E kw \in {<<"t", "o", "t", "a", "l">>, <<"c", "l", "o", "s", "i", "n", "g">>, <<"b", "a", "l", "a", "n", "c", "e">>, <<"s", "u", "m", "m", "a", "r", "y">>, <<"o", "p", "e", "n", "i", "n", "g">>} :
        Contains(Lower(desc), kw)

\* the rows of the input that pass the row filter, in order
Survivors == SelectSeq(df.rows, KeptAsStated)

LastFooter(rws) ==
    LET hits == {i \in 1..Len(rws) : FooterAsStated(Strip(astype_str(rws[i][2])))}
    IN  IF hits = {} THEN Len(rws) + 1 ELSE CHOOSE i \in hits : \A j \in hits : j <= i

Cleaned == pc \in {"cleaned", "recleaned"}

\* C9: before footer trimming a row is kept if and only if its Date parses to
\* 1985-01-01 or later, its Amount is numeric, and its trimmed Description is
\* longer than 2, not purely digits and not nan, none or null in any case: the
\* output holds exactly the kept rows that precede the footer cut, each with
\* its date as YYYY-MM-DD and its trimmed description.
C9_RowFilter ==
    Cleaned =>
        /\ result.kind = "table"
        /\ Len(result.rows) = Min(Len(Survivors), CutoffIndex([i \in 1..Len(Survivors) |->
                                      Strip(astype_str(Survivors[i][2]))]))
        /\ \A k \in 1..Len(result.rows) :
              /\ result.rows[k][1] = Text(StrfTime(to_datetime(Survivors[k][1]).n))
              /\ result.rows[k][2] = Text(Strip(astype_str(Survivors[k][2])))

\* C9's case: the row dated exactly 1985-01-01 and described ATM is kept
C9_Witness ==
    /\ pc = "cleaned"
    /\ df.rows = << <<Text(<<"1", "9", "8", "5", "-", "0", "1", "-", "0", "1">>), Text(<<"A", "T", "M">>), Text(<<"-", "1", "0", "0">>)>> >>
    /\ result.rows = << <<Text(<<"1", "9", "8", "5", "-", "0", "1", "-", "0", "1">>), Text(<<"A", "T", "M">>), Num(100), Text(<<"D", "e", "b", "i", "t">>)>> >>

\* C4: the output is exactly the surviving rows before the last row whose
\* Description contains a footer keyword, in order, so an earlier footer-like
\* row survives; with no such row nothing is cut.
C4_FooterTrim ==
    Cleaned =>
        /\ Len(result.rows) = LastFooter(Survivors) - 1
        /\ \A k \in 1..Len(result.rows) :
              result.rows[k][2] = Text(Strip(astype_str(Survivors[k][2])))

\* C4's case: "Balance Transfer Fee" survives before a later "TOTAL BALANCE"
\* row, which is cut with the row after it
C4_Witness ==
    /\ pc = "cleaned"
    /\ Len(df.rows) = 4
    /\ df.rows[1][2] = Text(<<"B", "a", "l", "a", "n", "c", "e", " ", "T", "r", "a", "n", "s", "f", "e", "r", " ", "F", "e", "e">>)
    /\ df.rows[3][2] = Text(<<"T", "O", "T", "A", "L", " ", "B", "A", "L", "A", "N", "C", "E">>)
    /\ df.rows[4][2] = Text(<<"S", "a", "l", "a", "r", "y">>)
    /\ Len(result.rows) = 2
    /\ result.rows[1][2] = Text(<<"B", "a", "l", "a", "n", "c", "e", " ", "T", "r", "a", "n", "s", "f", "e", "r", " ", "F", "e", "e">>)

\* C3 as stated: clean_transactions applied to its own output returns that
\* output.
C3_Idempotent == pc = "recleaned" => again = result

\* C3 amended: the second application returns the first output cut before its
\* last row whose Description contains a footer keyword (all of it when there
\* is none); every record left keeps Date, Description and Amount, and its Type
\* is Credit.
C3_Reapplied ==
    pc = "recleaned" =>
        /\ again.kind = "table"
        /\ again.columns = result.columns
        /\ Len(again.rows) = LastFooter(result.rows) - 1
        /\ \A k \in 1..Len(again.rows) :
              again.rows[k] = <<result.rows[k][1], result.rows[k][2], result.rows[k][3],
                                Text(<<"C", "r", "e", "d", "i", "t">>)>>

\* C3's case: a first output of two records, a Debit then a Credit, is cleaned
\* again and both records are still there
C3_Witness ==
    /\ pc = "recleaned"
    /\ Len(result.rows) = 2 /\ Len(again.rows) = 2
    /\ result.rows[1][4] = Text(<<"D", "e", "b", "i", "t">>)
    /\ again.rows[2] = result.rows[2]


(***************************************************************************)
(* Grids to search: LeadRows title rows, then at most MaxBody rows of      *)
(* GridRows; the lead puts the body on either side of the search bound     *)
(***************************************************************************)
MaxBody == 3
LeadSlack == 2

TitleRow == <<Text(<<"A", "c", "c", "o", "u", "n", "t", " ", "S", "t", "a", "t", "e", "m", "e", "n", "t">>), NaN, NaN, NaN>>

GridRows ==
    {TitleRow,
     <<Text(<<"A", "c", "c", "o", "u", "n", "t">>), Text(<<"N", "a", "m", "e">>), Text(<<"B", "r", "a", "n", "c", "h">>), NaN>>,
     <<Text(<<" ", "D", "a", "t", "e", " ">>), Text(<<" ", " ">>), Text(<<"A", "m", "o", "u", "n", "t">>), NaN>>,
     <<Text(<<"T", "x", "n", " ", "D", "a", "t", "e">>), Text(<<" ", "N", "a", "r", "r", "a", "t", "i", "o", "n">>), Text(<<"W", "i", "t", "h", "d", "r", "a", "w", "a", "l", " ", "A", "m", "t", ".">>), Text(<<"D", "e", "p", "o", "s", "i", "t", " ", "A", "m", "t", ".">>)>>,
     <<Text(<<"D", "a", "t", "e">>), Text(<<"D", "e", "s", "c", "r", "i", "p", "t", "i", "o", "n">>), Text(<<"A", "m", "o", "u", "n", "t">>), NaN>>,
     <<Text(<<"2", "0", "2", "3", "-", "0", "5", "-", "0", "1">>), Text(<<"G", "r", "o", "c", "e", "r", "y", " ", "S", "t", "o", "r", "e">>), Num(500), Num(0)>>}

Leads == {0} \cup ((MaxSearchRows - LeadSlack)..(MaxSearchRows + 1))

InitLocate ==
    /\ Idle
    /\ pc = "locate"
    /\ \E n \in Leads, body \in SeqsUpTo(GridRows, MaxBody) :
            df = Table(<<>>, [i \in 1..n |-> TitleRow] \o body)

\* lines 112-133 on the grid
Locate ==
    /\ pc = "locate"
    /\ result' = find_transaction_table(df.rows)
    /\ pc' = "located"
    /\ UNCHANGED <<ext, sheets, sheet, examined, df, accepted, norm, signed, again>>

SpecLocate == InitLocate /\ [][Locate]_vars

\* the rows (0-based) inside the bound that have at least 3 non-empty trimmed
\* cells and whose candidate table the classifier accepts
Qualifying ==
    {i \in 0..(Min(100, Len(df.rows)) - 1) :
        /\ Cardinality({j \in 1..Len(df.rows[i + 1]) :
                           /\ df.rows[i + 1][j].k # "nan"
                           /\ Strip(astype_str(df.rows[i + 1][j])) # <<>>}) >= 3
        /\ is_transaction_table(Candidate(df.rows, i + 1))}

MaxSheets == 3

Exts == {<<".", "c", "s", "v">>, <<".", "C", "S", "V">>, <<".", "x", "l", "s", "x">>, <<".", "x", "l", "s">>, <<".", "t", "x", "t">>}

\* no header row at all
NoTableSheet == <<TitleRow, <<Text(<<"B", "r", "a", "n", "c", "h">>), Text(<<"M", "a", "i", "n">>), NaN, NaN>> >>

\* the statement of the specification's end-to-end scenario
LedgerSheet ==
    <<TitleRow,
      <<NaN, NaN, NaN, NaN>>,
      <<Text(<<"T", "x", "n", " ", "D", "a", "t", "e">>), Text(<<"N", "a", "r", "r", "a", "t", "i", "o", "n">>), Text(<<"W", "i", "t", "h", "d", "r", "a", "w", "a", "l", " ", "A", "m", "t", ".">>), Text(<<"D", "e", "p", "o", "s", "i", "t", " ", "A", "m", "t", ".">>)>>,
      <<Text(<<"2", "0", "2", "3", "-", "0", "5", "-", "0", "1">>), Text(<<"G", "r", "o", "c", "e", "r", "y", " ", "S", "t", "o", "r", "e">>), Text(<<"5", "0", "0">>), Text(<<"0">>)>>,
      <<Text(<<"2", "0", "2", "3", "-", "0", "5", "-", "0", "2">>), Text(<<"S", "a", "l", "a", "r", "y">>), Text(<<"0">>), Text(<<"5", "0", "0", "0", "0">>)>>,
      <<NaN, Text(<<"C", "l", "o", "s", "i", "n", "g", " ", "B", "a", "l", "a", "n", "c", "e">>), NaN, Text(<<"4", "9", "5", "0", "0">>)>> >>

\* a signed Amount column with a Dr/Cr column
SignedSheet ==
    << <<Text(<<"D", "a", "t", "e">>), Text(<<"D", "e", "s", "c", "r", "i", "p", "t", "i", "o", "n">>), Text(<<"A", "m", "o", "u", "n", "t">>), Text(<<"D", "r", "/", "C", "r">>)>>,
       <<Text(<<"2", "0", "2", "4", "-", "0", "1", "-", "1", "5">>), Text(<<"A", "T", "M">>), Num(-200), Text(<<"D", "R">>)>> >>

\* accepted by the classifier, with no column that maps to Description
NoDescriptionSheet ==
    << <<Text(<<"D", "a", "t", "e">>), Text(<<"A", "m", "o", "u", "n", "t">>), Text(<<"R", "e", "f">>), NaN>>,
       <<Text(<<"2", "0", "2", "3", "-", "0", "5", "-", "0", "1">>), Text(<<"5", "0", "0">>), Text(<<"A", "1">>), NaN>> >>

\* accepted by the classifier, with two columns that map to Date
TwoDatesSheet ==
    << <<Text(<<"T", "x", "n", " ", "D", "a", "t", "e">>), Text(<<"V", "a", "l", "u", "e", " ", "D", "a", "t", "e">>), Text(<<"N", "a", "r", "r", "a", "t", "i", "o", "n">>), Text(<<"A", "m", "o", "u", "n", "t">>)>>,
       <<Text(<<"2", "0", "2", "3", "-", "0", "5", "-", "0", "1">>), Text(<<"2", "0", "2", "3", "-", "0", "5", "-", "0", "2">>), Text(<<"R", "e", "n", "t">>), Text(<<"-", "9", "0", "0">>)>> >>

Grids == {NoTableSheet, LedgerSheet, SignedSheet, NoDescriptionSheet, TwoDatesSheet}

InitLoader ==
    /\ pc = "start"
    /\ ext \in Exts
    /\ sheets \in SeqsUpTo(Grids, MaxSheets) \ {<<>>}
    /\ Lower(ext) = <<".", "c", "s", "v">> => Len(sheets) = 1
    /\ sheet = 0 /\ examined = <<>>
    /\ df = None /\ accepted = FALSE /\ norm = None /\ signed = None
    /\ result = None /\ again = None

\* lines 162-163
Unsupported ==
    /\ pc = "start" /\ ~IsCsv /\ ~IsExcel
    /\ result' = Raise("Unsupported file type")
    /\ pc' = "raised"
    /\ UNCHANGED <<ext, sheets, sheet, examined, df, accepted, norm, signed, again>>

\* lines 140-148
LoadCsv ==
    /\ pc = "start" /\ IsCsv
    /\ examined' = <<1>>
    /\ df' = find_transaction_table(sheets[1])
    /\ result' = IF find_transaction_table(sheets[1]) # None
                 THEN ParseTable(find_transaction_table(sheets[1]))
                 ELSE Raise("No valid transaction table found in CSV")
    /\ pc' = IF result'.kind = "error" THEN "raised" ELSE "returned"
    /\ UNCHANGED <<ext, sheets, sheet, accepted, norm, signed, again>>

\* lines 150-151
OpenExcel ==
    /\ pc = "start" /\ IsExcel
    /\ sheet' = 1
    /\ pc' = "sheets"
    /\ UNCHANGED <<ext, sheets, examined, df, accepted, norm, signed, result, again>>

\* one iteration of the loop of lines 152-158
ParseSheet ==
    /\ pc = "sheets" /\ sheet <= Len(sheets)
    /\ examined' = Append(examined, sheet)
    /\ df' = find_transaction_table(sheets[sheet])
    /\ IF find_transaction_table(sheets[sheet]) # None
       THEN /\ result' = ParseTable(find_transaction_table(sheets[sheet]))
            /\ pc' = IF result'.kind = "error" THEN "raised" ELSE "returned"
            /\ sheet' = sheet
       ELSE /\ sheet' = sheet + 1
            /\ UNCHANGED <<pc, result>>
    /\ UNCHANGED <<ext, sheets, accepted, norm, signed, again>>

\* line 160
Exhausted ==
    /\ pc = "sheets" /\ sheet > Len(sheets)
    /\ result' = Raise("No valid transaction table found in Excel file")
    /\ pc' = "raised"
    /\ UNCHANGED <<ext, sheets, sheet, examined, df, accepted, norm, signed, again>>

NextLoader == Unsupported \/ LoadCsv \/ OpenExcel \/ ParseSheet \/ Exhausted

SpecLoader == InitLoader /\ [][NextLoader]_vars

\* a sheet fails: no table is found in it, or its table lacks a resolvable
\* Date, Description or Amount
SheetFails(grid) ==
    \/ find_transaction_table(grid) = None
    \/ ParseTable(find_transaction_table(grid)).kind = "error"

Done == pc \in {"returned", "raised"}

\* C5: on a spreadsheet a sheet-level failure is swallowed and the loop goes on
\* to the next sheet: an error reaches the caller only when every sheet has
\* failed.
C5_SheetFailureSwallowed ==
    (pc = "raised" /\ IsExcel) => \A i \in 1..Len(sheets) : SheetFails(sheets[i])

ValidSheets == {i \in 1..Len(sheets) : ~SheetFails(sheets[i])}

\* C6: on a spreadsheet the loader returns the cleaned table of the first sheet
\* that produces one, having examined the sheets up to it in file order and none
\* after it, and raises the no-transaction-table error if and only if every
\* sheet fails; a CSV's single grid is tried once and raises the error when no
\* table is found; any other extension raises the unsupported-type error with
\* no sheet read.
C6_FirstValidSheet ==
    Done =>
        /\ IsExcel =>
              IF ValidSheets = {}
              THEN /\ pc = "raised"
                   /\ result = Raise("No valid transaction table found in Excel file")
              ELSE LET i == CHOOSE v \in ValidSheets : \A w \in ValidSheets : v <= w
                   IN  /\ pc = "returned"
                       /\ result = ParseTable(find_transaction_table(sheets[i]))
                       /\ examined = [k \in 1..i |-> k]
        /\ IsCsv =>
              /\ examined = <<1>>
              /\ find_transaction_table(sheets[1]) = None =>
                    result = Raise("No valid transaction table found in CSV")
        /\ (~IsExcel /\ ~IsCsv) =>
              /\ result = Raise("Unsupported file type")
              /\ examined = <<>>

=============================================================================
